---- MODULE Spec2Model ----
(***************************************************************************)
(* PolicyKit policy engine (policykit/policyengine/models.py): actions,    *)
(* their proposals, the permission gate run by save(), bundles, and the    *)
(* evaluation of the community's policies.                                 *)
(*                                                                         *)
(* An "item" is an in-memory model instance (an action or a bundle) with   *)
(* the database rows it owns.  Every handler is one atomic step.  The      *)
(* policy hooks are user code: the results of filter and check and the     *)
(* outcome of an effect (a platform adapter that fails, a deleted role)    *)
(* are inputs of the step.                                                 *)
(***************************************************************************)
EXTENDS Naturals, FiniteSets, Sequences, TLC

VARIABLES
  acts,         \* item -> the instance's fields: kind, community, flags, and the
                \*   initiator's rights: propose (holds add_<kind>), canExec
                \*   (holds the can-execute permission the kind declares)
  pk,           \* item -> the instance has a row (self.pk is set)
  status,       \* item -> status of the Proposal row the instance refers to
  proposals,    \* item -> number of Proposal rows created for the instance
  hasData,      \* item -> a DataStore row was created for the instance
  store,        \* item -> scratch keys in the action's DataStore (one per policy)
  members,      \* bundle -> bundled_actions
  effects,      \* action -> number of times its real effect was applied
  gateExecs,    \* item -> number of execute() calls made by save() itself
  firstEvals,   \* item -> policy -> calls of execute_policy(.., is_first_evaluation=True)
  inits,        \* item -> policy -> runs of the initialize hook
  notifies,     \* item -> policy -> runs of the notify hook
  evals,        \* item -> number of evaluation passes that ran a hook
  pair,         \* item -> policy -> engine state of the (Action, Policy) pair
  hasNotified,  \* policy -> BasePolicy.has_notified
  gateRuns,     \* item -> number of save() calls that took the creation branch
  reevals,      \* number of reevaluate() calls
  bvotes,       \* BooleanVote rows: records [user, proposal, boolean_value]
  nvotes,       \* NumberVote rows: records [user, proposal, number_value]
  tally,        \* the last tally query made and the rows it returned
  casts,        \* number of votes cast
  gone,         \* actions whose referenced entity was deleted (the reference is null)
  pc,           \* trigger -> where a concurrent trigger is in its pass
  data_store,   \* DataStore.data_store of one DataStore row, as the JSON object it holds
  ret           \* what the last DataStore call returned

\* The state of the vote tally, of the referenced entities and of the
\* concurrent triggers
ext == <<bvotes, nvotes, tally, casts, gone, pc, data_store, ret>>

vars == <<acts, pk, status, proposals, hasData, store, members, effects,
          gateExecs, firstEvals, inits, notifies, evals, pair, hasNotified,
          gateRuns, reevals, ext>>

(***************************************************************************)
(* Bounds                                                                  *)
(***************************************************************************)
MaxGateRuns == 2
MaxReevals == 1
MaxCasts == 3
MaxPasses == 2

(***************************************************************************)
(* The universe                                                            *)
(***************************************************************************)
Actions == {"a1", "a2"}
Bundles == {"b1"}
Items == Actions \cup Bundles

Communities == {"c1", "c2"}
\* The communities in which actions are proposed
ItemCommunities == {"c1"}

PROPOSED == "proposed"
FAILED == "failed"
PASSED == "passed"
Terminal == {PASSED, FAILED}
NoProposal == "none"

ELECTION == "election"
BUNDLE == "bundle"

\* Representative action kinds of the catalog: a kind with a ready flag, a kind
\* that refers to an entity, a kind of the policy editor, and a platform action.
ConstitutionKinds == {"PolicykitAddRole", "PolicykitDeleteRole", "PolicykitAddPlatformPolicy"}
PlatformKinds == {"PlatformAction"}
ReadyKinds == {"PolicykitAddRole"}
BundleKinds == {"ConstitutionActionBundle", "PlatformActionBundle"}
NoKind == "none"

ConstitutionPolicy == {"p1", "p2", "p3"}
PlatformPolicy == {"q1", "q2"}
Policies == ConstitutionPolicy \cup PlatformPolicy
PolicyOrder == <<"p1", "p2", "p3", "q1", "q2">>
\* Community c1 has two policies for constitution actions, c2 has one per family
PolicyCommunity(p) == IF p \in {"p3", "q2"} THEN "c2" ELSE "c1"

Blank == [kind |-> NoKind, community |-> "c1", propose |-> FALSE, canExec |-> FALSE,
          is_bundled |-> FALSE, ready |-> FALSE, bundle_type |-> BUNDLE,
          community_post |-> FALSE]

IsConstitution(x) == acts[x].kind \in ConstitutionKinds \cup {"ConstitutionActionBundle"}

(***************************************************************************)
(* Votes and the tally queries of Proposal                                 *)
(***************************************************************************)
\* Concurrent triggers of an evaluation pass, and where a trigger is
Triggers == {"t1", "t2"}
Idle == [at |-> "idle", item |-> "a1", verdict |-> "proposed"]

\* CommunityUser rows that vote
Members == {"u1", "u2", "u3"}

\* The users argument of a tally query: None (the default), or a collection
\* of users, written <<S>>
NoUsers == <<>>
UsersArgs == {NoUsers} \cup {<<S>> : S \in SUBSET Members}

\* "if users:" -- None is false, and so is an empty list or queryset
Truthy(users) == users # NoUsers /\ users[1] # {}

NumberValues == {1, 2}

\* BooleanVote.objects.filter(proposal=self[, user__in=users])
get_all_boolean_votes(x, users) ==
  IF Truthy(users)
  THEN {v \in bvotes : v.proposal = x /\ v.user \in users[1]}
  ELSE {v \in bvotes : v.proposal = x}

\* BooleanVote.objects.filter(boolean_value=True, proposal=self[, user__in=users])
get_yes_votes(x, users) ==
  IF Truthy(users)
  THEN {v \in bvotes : v.value = TRUE /\ v.proposal = x /\ v.user \in users[1]}
  ELSE {v \in bvotes : v.value = TRUE /\ v.proposal = x}

\* BooleanVote.objects.filter(boolean_value=False, proposal=self[, user__in=users])
get_no_votes(x, users) ==
  IF Truthy(users)
  THEN {v \in bvotes : v.value = FALSE /\ v.proposal = x /\ v.user \in users[1]}
  ELSE {v \in bvotes : v.value = FALSE /\ v.proposal = x}

\* NumberVote.objects.filter(proposal=self[, user__in=users])
get_all_number_votes(x, users) ==
  IF Truthy(users)
  THEN {v \in nvotes : v.proposal = x /\ v.user \in users[1]}
  ELSE {v \in nvotes : v.proposal = x}

\* NumberVote.objects.filter(number_value=value, proposal=self[, user__in=users])
get_one_number_votes(x, value, users) ==
  IF Truthy(users)
  THEN {v \in nvotes : v.value = value /\ v.proposal = x /\ v.user \in users[1]}
  ELSE {v \in nvotes : v.value = value /\ v.proposal = x}

TallyNames == {"get_all_boolean_votes", "get_yes_votes", "get_no_votes",
               "get_all_number_votes", "get_one_number_votes"}

\* No tally query was made
NoTally == [name |-> "none", proposal |-> "a1", users |-> NoUsers, rows |-> {}]

(***************************************************************************)
(* DataStore: a JSON object kept as text, read and written whole by every  *)
(* call.  Python values are written by their repr.                         *)
(***************************************************************************)
\* Keys a hook passes: the strings 'a' and '1', and the integer 1
PyKeys == {"'a'", "'1'", "1"}

\* Keys of a JSON object: strings only
JsonKeys == {"'a'", "'1'"}

\* Values a hook stores: a string, falsy values, an integer, a tuple
PyValues == {"'x'", "0", "False", "''", "None", "1", "(1, 2)"}

Absent == "<absent>"
NoReturn == "<no call>"

\* json.dumps turns a key that is not a string into one (1 becomes "1")
DumpsKey(k) == IF k = "1" THEN "'1'" ELSE k

\* json.loads(json.dumps(v)): a tuple comes back as a list
LoadsDumps(v) == IF v = "(1, 2)" THEN "[1, 2]" ELSE v

\* bool(v) is False
Falsy(v) == v \in {"0", "False", "''", "None"}

\* data_store == '': _get_data_store returns {}
EmptyStore == [k \in JsonKeys |-> Absent]

\* obj.get(key, None) / obj.pop(key, None) on the loaded object, whose keys
\* are all strings: a key that is not a string is never found
Lookup(obj, k) == IF k \in JsonKeys /\ obj[k] # Absent THEN obj[k] ELSE "None"

\* key in obj, for the loaded object
Present(obj, k) == k \in JsonKeys /\ obj[k] # Absent

\* DataStore.get
get(obj, k) == Lookup(obj, k)

\* DataStore.set: obj[key] = value; json.dumps(obj); the text is saved
set(obj, k, v) == [obj EXCEPT ![DumpsKey(k)] = LoadsDumps(v)]

\* DataStore.remove, the object it saves
remove(obj, k) == IF k \in JsonKeys THEN [obj EXCEPT ![k] = Absent] ELSE obj

\* DataStore.remove, what it returns: "if not res: return False"
remove_result(obj, k) == IF Falsy(Lookup(obj, k)) THEN "False" ELSE "True"

(***************************************************************************)
(* The state a handler works on: the variables it may change, plus         *)
(*   mem : item -> status held by the in-memory Proposal object of the     *)
(*         instance (self.proposal.status), which save() assigns without   *)
(*         saving the Proposal;                                            *)
(*   exc : an exception is propagating.                                    *)
(***************************************************************************)
World ==
  [pk |-> pk, status |-> status, proposals |-> proposals, hasData |-> hasData,
   store |-> store, effects |-> effects, gateExecs |-> gateExecs,
   firstEvals |-> firstEvals, inits |-> inits, notifies |-> notifies,
   evals |-> evals, pair |-> pair, hasNotified |-> hasNotified,
   gateRuns |-> gateRuns, mem |-> status, exc |-> FALSE]

Commit(w) ==
  /\ pk' = w.pk
  /\ status' = w.status
  /\ proposals' = w.proposals
  /\ hasData' = w.hasData
  /\ store' = w.store
  /\ effects' = w.effects
  /\ gateExecs' = w.gateExecs
  /\ firstEvals' = w.firstEvals
  /\ inits' = w.inits
  /\ notifies' = w.notifies
  /\ evals' = w.evals
  /\ pair' = w.pair
  /\ hasNotified' = w.hasNotified
  /\ gateRuns' = w.gateRuns

(***************************************************************************)
(* Proposal                                                                *)
(***************************************************************************)
\* Proposal.objects.create(status=s, author=self.initiator); self.proposal = it
CreateProposal(w, x, s) ==
  [w EXCEPT !.proposals[x] = @ + 1, !.status[x] = s, !.mem[x] = s]

\* Proposal.save: "if not self.pk: self.data = DataStore.objects.create()", so
\* every Proposal row that was created brought one DataStore row with it
ProposalDataStores(x) == proposals[x]

\* self.proposal.status = PASSED; self.proposal.save()
pass_action(w, x) == [w EXCEPT !.status[x] = PASSED, !.mem[x] = PASSED]

\* self.proposal.status = FAILED; self.proposal.save()
fail_action(w, x) == [w EXCEPT !.status[x] = FAILED, !.mem[x] = FAILED]

(***************************************************************************)
(* execute() of the action kinds                                           *)
(***************************************************************************)
\* The kinds whose effect can raise: the platform adapter call fails, or the
\* role of a delete-role action is gone (self.role is None, so self.role.delete()
\* raises AttributeError, which the except AssertionError does not catch).
CanRaise(x) == acts[x].kind \in {"PlatformAction", "PolicykitDeleteRole"}

Raises(x, env) == CanRaise(x) /\ env.raises[x]

\* An adapter failure that is recorded as a policy rejection
M_execute_platform_action(w, x, env) ==
  IF Raises(x, env) THEN [fail_action(w, x) EXCEPT !.exc = TRUE]
  ELSE [w EXCEPT !.effects[x] = @ + 1]

\* self.community.execute_platform_action(action)
execute_platform_action(w, x, env) ==
  IF Raises(x, env) THEN [w EXCEPT !.exc = TRUE]
  ELSE [w EXCEPT !.effects[x] = @ + 1]

\* <kind>.execute(): the effect, then self.pass_action()
execute(w, x, env) ==
  IF acts[x].kind = "PlatformAction"
  THEN LET w1 == execute_platform_action(w, x, env)
       IN IF w1.exc THEN w1 ELSE pass_action(w1, x)
  ELSE IF Raises(x, env) THEN [w EXCEPT !.exc = TRUE]
  ELSE pass_action([w EXCEPT !.effects[x] = @ + 1], x)

(***************************************************************************)
(* Bundles                                                                 *)
(***************************************************************************)
ActionOrder == <<"a1", "a2">>

\* self.bundled_actions.all(), in primary-key order
BundledActions(b) == SelectSeq(ActionOrder, LAMBDA a : a \in members[b])

RECURSIVE ExecuteBundled(_, _, _, _)
\* for action in self.bundled_actions.all(): <effect>; action.pass_action()
\* The members are loaded from the database; an exception leaves the loop.
ExecuteBundled(w, as, b, env) ==
  IF as = <<>> \/ w.exc THEN w
  ELSE LET a == Head(as)
           w1 == IF acts[b].kind = "ConstitutionActionBundle"
                 THEN execute(w, a, env)
                 ELSE execute_platform_action(w, a, env)
           w2 == IF w1.exc THEN w1 ELSE pass_action(w1, a)
       IN ExecuteBundled(w2, Tail(as), b, env)

\* A bundle that stops after its first bundled action
M_BundleExecute(w, b, env) ==
  IF acts[b].bundle_type = BUNDLE
  THEN IF ~w.pk[b] THEN [w EXCEPT !.exc = TRUE]
       ELSE LET as == BundledActions(b)
            IN ExecuteBundled(w, IF as = <<>> THEN as ELSE <<Head(as)>>, b, env)
  ELSE w

\* ConstitutionActionBundle.execute / PlatformActionBundle.execute.
\* A many-to-many manager of an instance without a primary key cannot be used
\* (Django raises ValueError), so execute() of a bundle that is not saved yet
\* raises when its type is BUNDLE.
BundleExecute(w, b, env) ==
  IF acts[b].bundle_type = BUNDLE
  THEN IF ~w.pk[b] THEN [w EXCEPT !.exc = TRUE]
       ELSE ExecuteBundled(w, BundledActions(b), b, env)
  ELSE w

\* action.execute(), for an action or a bundle
ActionExecute(w, x, env) ==
  IF x \in Bundles THEN BundleExecute(w, x, env) ELSE execute(w, x, env)

(***************************************************************************)
(* The policy evaluation engine (policyengine.views.execute_policy and the *)
(* re-evaluation trigger), which this file calls and does not define.      *)
(***************************************************************************)
Verdicts == {PASSED, FAILED, PROPOSED}

\* An engine that forgets to look at the Proposal's status
M_EngineSkips(w, p, x) == w.pair[x][p] \in {"not-applicable", "resolved"}

\* The engine does nothing for a Proposal that is terminal, nor for a pair
\* that was found not applicable or is resolved.
EngineSkips(w, p, x) ==
  \/ w.mem[x] \in Terminal
  \/ w.pair[x][p] \in {"not-applicable", "resolved"}

\* notify, guarded by policy.has_notified, which is set once notify has fired
Notify(w, p, x) ==
  IF w.hasNotified[p] THEN [w EXCEPT !.pair[x][p] = "pending"]
  ELSE [w EXCEPT !.notifies[x][p] = @ + 1, !.hasNotified[p] = TRUE,
                 !.pair[x][p] = "pending"]

\* initialize: sets up the scratch keys of the pair in the action's DataStore
Initialize(w, p, x) ==
  [w EXCEPT !.inits[x][p] = @ + 1,
            !.store[x] = IF w.hasData[x] THEN @ \cup {p} ELSE @,
            !.pair[x][p] = "initialized"]

\* success (DEFAULT_SUCCESS: action.execute()), then the Proposal is passed.
\* A fault in the hook is caught: the Proposal makes no transition.
Success(w, p, x, env) ==
  LET w1 == ActionExecute(w, x, env)
  IN IF w1.exc THEN [w1 EXCEPT !.exc = FALSE]
     ELSE pass_action([w1 EXCEPT !.pair[x][p] = "resolved"], x)

\* fail (DEFAULT_FAIL: pass), then the Proposal is failed.
Fail(w, p, x) == fail_action([w EXCEPT !.pair[x][p] = "resolved"], x)

execute_policy(w, p, x, is_first_evaluation, env) ==
  IF EngineSkips(w, p, x) THEN w
  ELSE IF env.fault[p] THEN [w EXCEPT !.evals[x] = @ + 1]
  ELSE LET w0 == [w EXCEPT !.evals[x] = @ + 1]
           applicable == IF is_first_evaluation \/ w.pair[x][p] = "new"
                         THEN env.filt[p] ELSE TRUE
       IN IF ~applicable THEN [w0 EXCEPT !.pair[x][p] = "not-applicable"]
          ELSE LET w1 == IF is_first_evaluation THEN Initialize(w0, p, x) ELSE w0
                   v == env.verdict[p]
               IN CASE v = PASSED -> Success(w1, p, x, env)
                    [] v = FAILED -> Fail(w1, p, x)
                    [] OTHER -> Notify(w1, p, x)

(***************************************************************************)
(* The permission gate: save()                                             *)
(***************************************************************************)
\* A gate that lets the can-execute permission stand in for the propose one
M_CanPropose(x) == acts[x].propose \/ acts[x].canExec

\* self.initiator.has_perm(app_label + '.add_' + action_codename)
CanPropose(x) == acts[x].propose

\* action_codename of the kind
Codename(k) ==
  CASE k = "PolicykitAddRole" -> "policykitaddrole"
    [] k = "PolicykitDeleteRole" -> "policykitdeleterole"
    [] k = "PolicykitAddPlatformPolicy" -> "policykitaddplatformpolicy"
    [] OTHER -> ""

\* The can-execute permission the kind declares (Meta.permissions), by the part
\* of its codename after 'can_execute_'
DeclaredExecutePermission(k) ==
  CASE k = "PolicykitAddRole" -> "policykitaddrole"
    [] k = "PolicykitDeleteRole" -> "policykitdeleterole"
    [] k = "PolicykitAddPlatformPolicy" -> "addpolicykitplatformpolicy"
    [] OTHER -> ""

\* action.initiator.has_perm(app_name + '.can_execute_' + action_codename):
\* the initiator (not a superuser) holds a permission of that codename, and the
\* only can-execute permission of a kind is the one it declares.  The kinds
\* outside this file (platform actions, bundles) get theirs from their caller.
CanExecute(x) ==
  /\ acts[x].canExec
  /\ DeclaredExecutePermission(acts[x].kind) = Codename(acts[x].kind)

\* The base shouldCreate for every kind, ready flag or not
M_shouldCreate(w, x) == ~w.pk[x]

\* ConstitutionAction.shouldCreate ("not self.pk"), overridden by the kinds
\* that have a ready flag ("return self.ready")
shouldCreate(w, x) ==
  IF acts[x].kind \in ReadyKinds THEN acts[x].ready ELSE ~w.pk[x]

\* A pool that is not scoped to the community: ConstitutionPolicy.objects.all()
M_ConstitutionPool(x) ==
  SelectSeq(PolicyOrder, LAMBDA p : p \in ConstitutionPolicy)

\* ConstitutionPolicy.objects.filter(community=self.community)
ConstitutionPool(x) ==
  SelectSeq(PolicyOrder, LAMBDA p : p \in ConstitutionPolicy
                                    /\ PolicyCommunity(p) = acts[x].community)

\* PlatformPolicy.objects.filter(community=self.community)
PlatformPool(x) ==
  SelectSeq(PolicyOrder, LAMBDA p : p \in PlatformPolicy
                                    /\ PolicyCommunity(p) = acts[x].community)

Pool(x) == IF IsConstitution(x) THEN ConstitutionPool(x) ELSE PlatformPool(x)

Range(s) == {s[i] : i \in 1..Len(s)}

RECURSIVE EvaluatePool(_, _, _, _, _)
\* for policy in <pool>: execute_policy(policy, action, is_first_evaluation)
EvaluatePool(w, ps, x, is_first_evaluation, env) ==
  IF ps = <<>> THEN w
  ELSE LET p == Head(ps)
           w1 == IF is_first_evaluation
                 THEN [w EXCEPT !.firstEvals[x][p] = @ + 1] ELSE w
       IN EvaluatePool(execute_policy(w1, p, x, is_first_evaluation, env),
                       Tail(ps), x, is_first_evaluation, env)

\* if not self.is_bundled: execute, or hand the action to every policy
GateConstitution(w, x, env) ==
  IF acts[x].is_bundled THEN w
  ELSE IF CanExecute(x)
       THEN execute([w EXCEPT !.gateExecs[x] = @ + 1], x, env)
       ELSE EvaluatePool(w, ConstitutionPool(x), x, TRUE, env)

GatePlatform(w, x, env) ==
  IF acts[x].is_bundled THEN w
  ELSE IF CanExecute(x)
       THEN execute([w EXCEPT !.gateExecs[x] = @ + 1], x, env)
       ELSE EvaluatePool(w, PlatformPool(x), x, TRUE, env)

\* ConstitutionAction.save
ConstitutionActionSave(w, x, env) ==
  IF shouldCreate(w, x)
  THEN LET w1 == [w EXCEPT !.hasData[x] = TRUE, !.gateRuns[x] = @ + 1]
       IN IF CanPropose(x)
          THEN LET w2 == IF w1.proposals[x] > 0      \* hasattr(self, 'proposal')
                         THEN [w1 EXCEPT !.mem[x] = PROPOSED]
                         ELSE CreateProposal(w1, x, PROPOSED)
                   w3 == [w2 EXCEPT !.pk[x] = TRUE]
               IN GateConstitution(w3, x, env)
          ELSE CreateProposal(w1, x, FAILED)
  ELSE LET w1 == IF ~w.pk[x] THEN CreateProposal(w, x, FAILED) ELSE w
       IN [w1 EXCEPT !.pk[x] = TRUE]

\* PlatformAction.save
PlatformActionSave(w, x, env) ==
  IF ~w.pk[x]
  THEN LET w1 == [w EXCEPT !.hasData[x] = TRUE, !.gateRuns[x] = @ + 1]
       IN IF CanPropose(x)
          THEN LET w2 == CreateProposal(w1, x, PROPOSED)
                   w3 == [w2 EXCEPT !.pk[x] = TRUE]
               IN GatePlatform(w3, x, env)
          ELSE [CreateProposal(w1, x, FAILED) EXCEPT !.pk[x] = TRUE]
  ELSE w

\* ConstitutionActionBundle.save
ConstitutionActionBundleSave(w, b, env) ==
  LET w0 == IF ~w.pk[b] THEN [w EXCEPT !.gateRuns[b] = @ + 1] ELSE w
      w1 == IF ~w.pk[b] /\ CanPropose(b)
            THEN IF CanExecute(b)
                 THEN BundleExecute([w0 EXCEPT !.gateExecs[b] = @ + 1], b, env)
                 ELSE EvaluatePool(w0, ConstitutionPool(b), b, TRUE, env)
            ELSE w0
  IN IF w1.exc THEN w1 ELSE [w1 EXCEPT !.pk[b] = TRUE]

\* PlatformActionBundle.save
PlatformActionBundleSave(w, b, env) ==
  LET w0 == IF ~w.pk[b] THEN [w EXCEPT !.gateRuns[b] = @ + 1] ELSE w
      w1 == IF ~w.pk[b] /\ CanPropose(b)
            THEN IF CanExecute(b)
                 THEN BundleExecute([w0 EXCEPT !.gateExecs[b] = @ + 1], b, env)
                 ELSE IF ~acts[b].community_post
                      THEN EvaluatePool(w0, PlatformPool(b), b, TRUE, env)
                      ELSE w0
            ELSE w0
  IN IF w1.exc THEN w1 ELSE [w1 EXCEPT !.pk[b] = TRUE]

\* <kind>.save()
ActionSave(w, x, env) ==
  IF IsConstitution(x) THEN ConstitutionActionSave(w, x, env)
  ELSE PlatformActionSave(w, x, env)

\* reevaluate(action): every policy of the pool again, not a first evaluation
ReevaluateItem(w, x, env) == EvaluatePool(w, Pool(x), x, FALSE, env)

(***************************************************************************)
(* Inputs of a step                                                        *)
(***************************************************************************)
\* Every effect succeeds
AllSucceed == [raises |-> [a \in Actions |-> FALSE]]

\* A hook of every policy raises
HookFault ==
  [filt |-> [p \in Policies |-> TRUE],
   verdict |-> [p \in Policies |-> PASSED],
   raises |-> [a \in Actions |-> FALSE],
   fault |-> [p \in Policies |-> TRUE]]

\* No hook raises, every filter applies and every check returns PASSED
AllPass == [HookFault EXCEPT !.fault = [p \in Policies |-> FALSE]]

\* The effect of a raises (the platform adapter call fails); every policy
\* applies and passes
RaiseOn(a) == [AllPass EXCEPT !.raises = [x \in Actions |-> x = a]]

\* What a later handler loads: the Proposal as it is stored
Reload(w) == [w EXCEPT !.mem = w.status]

\* The actions whose effect a handler working on x may run
Executable(x) == IF x \in Bundles THEN members[x] ELSE {x}

\* What the hooks return and which effects raise during one handler: filt and
\* verdict for the policies ps that the handler can consult, raises for the
\* effects it can run.
Envs(ps, x) ==
  {[filt |-> f, verdict |-> v, raises |-> [a \in Actions |-> a \in R],
    fault |-> [p \in ps |-> FALSE]] :
     f \in [ps -> BOOLEAN],
     v \in [ps -> Verdicts],
     R \in SUBSET {a \in Executable(x) : CanRaise(a)}}

\* The policies of the pool whose hooks can still run for x
Open(x) == {p \in Range(Pool(x)) : pair[x][p] \notin {"not-applicable", "resolved"}}

\* The policies a save() of x can consult: none unless its gate reaches the loop
SaveEnvs(x) ==
  Envs(IF /\ CanPropose(x) /\ ~CanExecute(x) /\ ~acts[x].is_bundled
          /\ ~acts[x].community_post
          /\ (IF x \in Bundles THEN ~pk[x] ELSE shouldCreate(World, x))
       THEN Open(x) ELSE {}, x)

\* The policies a re-evaluation of x can consult
ReevaluateEnvs(x) == Envs(Open(x), x)

(***************************************************************************)
(* The state machine                                                       *)
(***************************************************************************)
\* No instance is built and no row exists
ItemsInit ==
  /\ acts = [x \in Items |-> Blank]
  /\ pk = [x \in Items |-> FALSE]
  /\ status = [x \in Items |-> NoProposal]
  /\ proposals = [x \in Items |-> 0]
  /\ hasData = [x \in Items |-> FALSE]
  /\ store = [x \in Items |-> {}]
  /\ members = [b \in Bundles |-> {}]
  /\ effects = [a \in Actions |-> 0]
  /\ gateExecs = [x \in Items |-> 0]
  /\ firstEvals = [x \in Items |-> [p \in Policies |-> 0]]
  /\ inits = [x \in Items |-> [p \in Policies |-> 0]]
  /\ notifies = [x \in Items |-> [p \in Policies |-> 0]]
  /\ evals = [x \in Items |-> 0]
  /\ pair = [x \in Items |-> [p \in Policies |-> "new"]]
  /\ hasNotified = [p \in Policies |-> FALSE]
  /\ gateRuns = [x \in Items |-> 0]
  /\ reevals = 0

\* No vote is cast, no tally is asked, every referenced entity exists, no
\* trigger is running
ExtInit ==
  /\ bvotes = {}
  /\ nvotes = {}
  /\ tally = NoTally
  /\ casts = 0
  /\ gone = {}
  /\ pc = [t \in Triggers |-> Idle]
  /\ data_store = EmptyStore
  /\ ret = NoReturn

Init == ItemsInit /\ ExtInit

\* The environment that is explored: the items that exist together are either
\* actions of one kind by initiators of the same rights (two proposals going
\* through the same gate and the same policies), or a bundle with the bundled
\* actions of its family.
SameRights(r, q) ==
  /\ r.kind = q.kind
  /\ r.community = q.community
  /\ r.propose = q.propose
  /\ r.canExec = q.canExec
  /\ r.is_bundled = q.is_bundled

InScope(a, r) ==
  /\ \A o \in Actions \ {a} : acts[o].kind # NoKind => SameRights(r, acts[o])
  /\ \A b \in Bundles : acts[b].kind # NoKind =>
        /\ r.is_bundled
        /\ (r.kind \in ConstitutionKinds) = (acts[b].kind = "ConstitutionActionBundle")

BundleInScope(r) ==
  \A a \in Actions : acts[a].kind # NoKind =>
     /\ acts[a].is_bundled
     /\ (acts[a].kind \in ConstitutionKinds) = (r.kind = "ConstitutionActionBundle")

\* A caller builds an action instance: kind, community, initiator, is_bundled.
\* ready is the class attribute, False.
NewAction(a) ==
  /\ acts[a].kind = NoKind
  /\ \E k \in ConstitutionKinds \cup PlatformKinds, c \in ItemCommunities,
        pr \in BOOLEAN, ce \in BOOLEAN, ib \in BOOLEAN :
        LET r == [Blank EXCEPT !.kind = k, !.community = c, !.propose = pr,
                               !.canExec = ce, !.is_bundled = ib]
        IN /\ InScope(a, r)
           /\ acts' = [acts EXCEPT ![a] = r]
  /\ UNCHANGED <<pk, status, proposals, hasData, store, members, effects,
                 gateExecs, firstEvals, inits, notifies, evals, pair,
                 hasNotified, gateRuns, reevals>>
  /\ UNCHANGED ext

\* A caller builds a bundle instance and gives it its Proposal: proposal is a
\* required one-to-one field of BaseAction and the bundle's save() creates none.
NewBundle(b) ==
  /\ acts[b].kind = NoKind
  /\ \E k \in BundleKinds, c \in ItemCommunities, pr \in BOOLEAN, ce \in BOOLEAN,
        t \in {BUNDLE, ELECTION}, cp \in BOOLEAN :
        LET r == [Blank EXCEPT !.kind = k, !.community = c, !.propose = pr,
                               !.canExec = ce, !.bundle_type = t,
                               !.community_post = cp]
        IN /\ cp => k = "PlatformActionBundle"
           /\ BundleInScope(r)
           /\ acts' = [acts EXCEPT ![b] = r]
  /\ status' = [status EXCEPT ![b] = PROPOSED]
  /\ proposals' = [proposals EXCEPT ![b] = 1]
  /\ UNCHANGED <<pk, hasData, store, members, effects, gateExecs, firstEvals,
                 inits, notifies, evals, pair, hasNotified, gateRuns, reevals>>
  /\ UNCHANGED ext

\* action.ready = True
SetReady(a) ==
  /\ acts[a].kind \in ReadyKinds
  /\ ~acts[a].ready
  /\ acts' = [acts EXCEPT ![a].ready = TRUE]
  /\ UNCHANGED <<pk, status, proposals, hasData, store, members, effects,
                 gateExecs, firstEvals, inits, notifies, evals, pair,
                 hasNotified, gateRuns, reevals>>
  /\ UNCHANGED ext

\* bundle.bundled_actions.add(action): both have rows, the action is of the
\* bundle's family and was created with is_bundled
AddBundledAction(b, a) ==
  /\ acts[b].kind \in BundleKinds
  /\ pk[b] /\ pk[a]
  /\ a \notin members[b]
  /\ acts[a].is_bundled
  /\ IsConstitution(a) = IsConstitution(b)
  /\ members' = [members EXCEPT ![b] = @ \cup {a}]
  /\ UNCHANGED <<acts, pk, status, proposals, hasData, store, effects,
                 gateExecs, firstEvals, inits, notifies, evals, pair,
                 hasNotified, gateRuns, reevals>>
  /\ UNCHANGED ext

SaveConstitutionAction(a) ==
  /\ acts[a].kind \in ConstitutionKinds
  /\ gateRuns[a] < MaxGateRuns
  /\ \E env \in SaveEnvs(a) : Commit(ConstitutionActionSave(World, a, env))
  /\ UNCHANGED <<acts, members, reevals, ext>>

SavePlatformAction(a) ==
  /\ acts[a].kind \in PlatformKinds
  /\ gateRuns[a] < MaxGateRuns
  /\ \E env \in SaveEnvs(a) : Commit(PlatformActionSave(World, a, env))
  /\ UNCHANGED <<acts, members, reevals, ext>>

SaveConstitutionActionBundle(b) ==
  /\ acts[b].kind = "ConstitutionActionBundle"
  /\ gateRuns[b] < MaxGateRuns
  /\ \E env \in SaveEnvs(b) : Commit(ConstitutionActionBundleSave(World, b, env))
  /\ UNCHANGED <<acts, members, reevals, ext>>

SavePlatformActionBundle(b) ==
  /\ acts[b].kind = "PlatformActionBundle"
  /\ gateRuns[b] < MaxGateRuns
  /\ \E env \in SaveEnvs(b) : Commit(PlatformActionBundleSave(World, b, env))
  /\ UNCHANGED <<acts, members, reevals, ext>>

\* The re-evaluation trigger (a vote, a scheduler tick) on a saved item that
\* the gate hands to the engine: an action that is not bundled, or a bundle.
Reevaluate(x) ==
  /\ pk[x]
  /\ ~acts[x].is_bundled
  /\ reevals < MaxReevals
  /\ \E env \in ReevaluateEnvs(x) : Commit(ReevaluateItem(World, x, env))
  /\ reevals' = reevals + 1
  /\ UNCHANGED <<acts, members, ext>>

Next ==
  \/ \E a \in Actions : NewAction(a)
  \/ \E b \in Bundles : NewBundle(b)
  \/ \E a \in Actions : SetReady(a)
  \/ \E b \in Bundles, a \in Actions : AddBundledAction(b, a)
  \/ \E a \in Actions : SaveConstitutionAction(a)
  \/ \E a \in Actions : SavePlatformAction(a)
  \/ \E b \in Bundles : SaveConstitutionActionBundle(b)
  \/ \E b \in Bundles : SavePlatformActionBundle(b)
  \/ \E x \in Items : Reevaluate(x)

Spec == Init /\ [][Next]_vars

(***************************************************************************)
(* The tally queries on stored votes                                       *)
(***************************************************************************)
\* The votes of the members on the Proposal of a1, by a choice per member;
\* every member also voted on the Proposal of a2.
BooleanRows(f) ==
  {[user |-> u, proposal |-> "a1", value |-> (f[u] = "yes")] :
       u \in {m \in Members : f[m] # "none"}}
  \cup {[user |-> u, proposal |-> "a2", value |-> TRUE] : u \in Members}

NumberRows(g) ==
  {[user |-> u, proposal |-> "a1", value |-> g[u]] :
       u \in {m \in Members : g[m] # 0}}
  \cup {[user |-> u, proposal |-> "a2", value |-> 1] : u \in Members}

TallyInit ==
  /\ ItemsInit
  /\ \E f \in [Members -> {"none", "yes", "no"}] : bvotes = BooleanRows(f)
  /\ \E g \in [Members -> {0} \cup NumberValues] : nvotes = NumberRows(g)
  /\ tally = NoTally
  /\ casts = 0
  /\ gone = {}
  /\ pc = [t \in Triggers |-> Idle]
  /\ data_store = EmptyStore
  /\ ret = NoReturn

\* A hook asks a tally of the Proposal of x
TallyQuery(name, x, users, value) ==
  /\ tally = NoTally
  /\ tally' = [name |-> name, proposal |-> x, users |-> users,
               rows |-> CASE name = "get_all_boolean_votes" -> get_all_boolean_votes(x, users)
                          [] name = "get_yes_votes" -> get_yes_votes(x, users)
                          [] name = "get_no_votes" -> get_no_votes(x, users)
                          [] name = "get_all_number_votes" -> get_all_number_votes(x, users)
                          [] OTHER -> get_one_number_votes(x, value, users)]
  /\ UNCHANGED <<acts, pk, status, proposals, hasData, store, members, effects,
                 gateExecs, firstEvals, inits, notifies, evals, pair,
                 hasNotified, gateRuns, reevals, bvotes, nvotes, casts, gone, pc,
                 data_store, ret>>

TallyNext ==
  \E name \in TallyNames, x \in Actions, users \in UsersArgs, value \in NumberValues :
     TallyQuery(name, x, users, value)

TallySpec == TallyInit /\ [][TallyNext]_vars

(***************************************************************************)
(* Voting on one action of community c2, under a policy whose check passes *)
(* the action once enough members voted yes                                *)
(***************************************************************************)
\* The number of yes votes at which the policy's check returns PASSED
Threshold == 2

\* A castVote that records every vote as a new row
M_castVote(rows, x, u, v) == rows \cup {[user |-> u, proposal |-> x, value |-> v]}

\* castVote(proposal, member, value): records or replaces the member's vote;
\* it fails when the Proposal is passed or failed.
castVote(rows, x, u, v) ==
  {r \in rows : ~(r.user = u /\ r.proposal = x)}
     \cup {[user |-> u, proposal |-> x, value |-> v]}

\* check: "return PASSED if action.proposal.get_yes_votes().count() >= N"
ThresholdCheck(x) ==
  IF Cardinality(get_yes_votes(x, NoUsers)) >= Threshold THEN PASSED ELSE PROPOSED

\* The hooks during a handler on x: filter applies, check counts the yes
\* votes, no effect raises
ThresholdEnv(x) ==
  [filt |-> [p \in Policies |-> TRUE],
   verdict |-> [p \in Policies |-> ThresholdCheck(x)],
   raises |-> [a \in Actions |-> FALSE],
   fault |-> [p \in Policies |-> FALSE]]

\* A caller builds an action of community c2 that is not bundled
VoteNewAction(a) ==
  /\ acts[a].kind = NoKind
  /\ \E k \in ConstitutionKinds \cup PlatformKinds, pr \in BOOLEAN, ce \in BOOLEAN :
        acts' = [acts EXCEPT ![a] = [Blank EXCEPT !.kind = k, !.community = "c2",
                                                  !.propose = pr, !.canExec = ce]]
  /\ UNCHANGED <<pk, status, proposals, hasData, store, members, effects,
                 gateExecs, firstEvals, inits, notifies, evals, pair,
                 hasNotified, gateRuns, reevals, ext>>

VoteSave(a) ==
  /\ acts[a].kind # NoKind
  /\ gateRuns[a] < MaxGateRuns
  /\ Commit(IF IsConstitution(a)
            THEN ConstitutionActionSave(World, a, ThresholdEnv(a))
            ELSE PlatformActionSave(World, a, ThresholdEnv(a)))
  /\ UNCHANGED <<acts, members, reevals, ext>>

CastBooleanVote(x, u, v) ==
  /\ proposals[x] > 0
  /\ status[x] \notin Terminal
  /\ casts < MaxCasts
  /\ bvotes' = castVote(bvotes, x, u, v)
  /\ casts' = casts + 1
  /\ UNCHANGED <<acts, pk, status, proposals, hasData, store, members, effects,
                 gateExecs, firstEvals, inits, notifies, evals, pair,
                 hasNotified, gateRuns, reevals, nvotes, tally, gone, pc,
                 data_store, ret>>

CastNumberVote(x, u, v) ==
  /\ proposals[x] > 0
  /\ status[x] \notin Terminal
  /\ casts < MaxCasts
  /\ nvotes' = castVote(nvotes, x, u, v)
  /\ casts' = casts + 1
  /\ UNCHANGED <<acts, pk, status, proposals, hasData, store, members, effects,
                 gateExecs, firstEvals, inits, notifies, evals, pair,
                 hasNotified, gateRuns, reevals, bvotes, tally, gone, pc,
                 data_store, ret>>

\* A vote or a scheduler tick re-evaluates the saved action
VoteReevaluate(x) ==
  /\ pk[x]
  /\ reevals < MaxPasses
  /\ Commit(ReevaluateItem(World, x, ThresholdEnv(x)))
  /\ reevals' = reevals + 1
  /\ UNCHANGED <<acts, members, ext>>

VoteNext ==
  \/ VoteNewAction("a1")
  \/ SetReady("a1")
  \/ VoteSave("a1")
  \/ \E u \in Members, v \in BOOLEAN : CastBooleanVote("a1", u, v)
  \/ \E u \in Members, v \in NumberValues : CastNumberVote("a1", u, v)
  \/ VoteReevaluate("a1")

VoteSpec == Init /\ [][VoteNext]_vars

(***************************************************************************)
(* Delete actions whose referenced entity is deleted by someone else       *)
(***************************************************************************)
\* The kinds that delete the entity they reference
DeleteKinds == {"PolicykitDeleteRole"}

\* What the hooks return, with the effect of x raising exactly when the entity
\* x references is gone
GoneEnvs(es, x) == {e \in es : e.raises[x] = (x \in gone)}

\* A caller builds a delete-role action for an existing role
DeleteNewAction(a) ==
  /\ acts[a].kind = NoKind
  /\ \E k \in DeleteKinds, pr \in BOOLEAN, ce \in BOOLEAN :
        acts' = [acts EXCEPT ![a] = [Blank EXCEPT !.kind = k, !.community = "c2",
                                                  !.propose = pr, !.canExec = ce]]
  /\ UNCHANGED <<pk, status, proposals, hasData, store, members, effects,
                 gateExecs, firstEvals, inits, notifies, evals, pair,
                 hasNotified, gateRuns, reevals, ext>>

\* The role is deleted: the foreign key is SET_NULL, so the action's reference
\* is None from now on
DeleteEntity(a) ==
  /\ acts[a].kind \in DeleteKinds
  /\ a \notin gone
  /\ gone' = gone \cup {a}
  /\ UNCHANGED <<acts, pk, status, proposals, hasData, store, members, effects,
                 gateExecs, firstEvals, inits, notifies, evals, pair,
                 hasNotified, gateRuns, reevals, bvotes, nvotes, tally, casts, pc,
                 data_store, ret>>

DeleteSave(a) ==
  /\ acts[a].kind \in DeleteKinds
  /\ gateRuns[a] < MaxGateRuns
  /\ \E env \in GoneEnvs(SaveEnvs(a), a) :
        Commit(ConstitutionActionSave(World, a, env))
  /\ UNCHANGED <<acts, members, reevals, ext>>

DeleteReevaluate(x) ==
  /\ pk[x]
  /\ reevals < MaxPasses
  /\ \E env \in GoneEnvs(ReevaluateEnvs(x), x) :
        Commit(ReevaluateItem(World, x, env))
  /\ reevals' = reevals + 1
  /\ UNCHANGED <<acts, members, ext>>

DeleteNext ==
  \/ \E a \in Actions : DeleteNewAction(a)
  \/ \E a \in Actions : DeleteEntity(a)
  \/ \E a \in Actions : DeleteSave(a)
  \/ \E a \in Actions : DeleteReevaluate(a)

DeleteSpec == Init /\ [][DeleteNext]_vars

(***************************************************************************)
(* Concurrent evaluation passes.  Nothing in the file takes a lock, opens  *)
(* a transaction or selects for update, so the statements of two passes on *)
(* the same action interleave: each pass reads the Proposal, runs the      *)
(* policy's check, and then runs success (action.execute(): the effect,    *)
(* then pass_action()) or fail (fail_action()).                            *)
(***************************************************************************)
\* The kinds without a ready flag
PlainKinds == (ConstitutionKinds \cup PlatformKinds) \ ReadyKinds

\* A caller builds an action of community c2 that is not bundled
RaceNewAction(a) ==
  /\ acts[a].kind = NoKind
  /\ \E k \in PlainKinds, pr \in BOOLEAN, ce \in BOOLEAN :
        acts' = [acts EXCEPT ![a] = [Blank EXCEPT !.kind = k, !.community = "c2",
                                                  !.propose = pr, !.canExec = ce]]
  /\ UNCHANGED <<pk, status, proposals, hasData, store, members, effects,
                 gateExecs, firstEvals, inits, notifies, evals, pair,
                 hasNotified, gateRuns, reevals, ext>>

\* The creating save(), before any other trigger can see the action
RaceSave(a) ==
  /\ acts[a].kind # NoKind
  /\ ~pk[a]
  /\ gateRuns[a] < MaxGateRuns
  /\ \E env \in GoneEnvs(SaveEnvs(a), a) : Commit(ActionSave(World, a, env))
  /\ UNCHANGED <<acts, members, reevals, ext>>

\* Trigger t starts a pass on the saved action x: it loads the Proposal, finds
\* it not terminal, and the policy's check returns a terminal verdict
RaceCheck(t, x) ==
  /\ pc[t] = Idle
  /\ pk[x]
  /\ status[x] \notin Terminal
  /\ \E v \in Terminal :
        pc' = [pc EXCEPT ![t] = [at |-> "checked", item |-> x, verdict |-> v]]
  /\ UNCHANGED <<acts, pk, status, proposals, hasData, store, members, effects,
                 gateExecs, firstEvals, inits, notifies, evals, pair,
                 hasNotified, gateRuns, reevals, bvotes, nvotes, tally, casts,
                 gone, data_store, ret>>

\* success -> action.execute(), first statement: the effect
RaceEffect(t) ==
  /\ pc[t].at = "checked"
  /\ pc[t].verdict = PASSED
  /\ Commit([World EXCEPT !.effects[pc[t].item] = @ + 1])
  /\ pc' = [pc EXCEPT ![t].at = "executed"]
  /\ UNCHANGED <<acts, members, reevals, bvotes, nvotes, tally, casts, gone, data_store, ret>>

\* success -> action.execute(), second statement: self.pass_action()
RacePass(t) ==
  /\ pc[t].at = "executed"
  /\ Commit(pass_action(World, pc[t].item))
  /\ pc' = [pc EXCEPT ![t].at = "done"]
  /\ UNCHANGED <<acts, members, reevals, bvotes, nvotes, tally, casts, gone, data_store, ret>>

\* fail, then action.fail_action()
RaceFail(t) ==
  /\ pc[t].at = "checked"
  /\ pc[t].verdict = FAILED
  /\ Commit(fail_action(World, pc[t].item))
  /\ pc' = [pc EXCEPT ![t].at = "done"]
  /\ UNCHANGED <<acts, members, reevals, bvotes, nvotes, tally, casts, gone, data_store, ret>>

RaceNext ==
  \/ \E a \in Actions : RaceNewAction(a)
  \/ \E a \in Actions : RaceSave(a)
  \/ \E t \in Triggers, a \in Actions : RaceCheck(t, a)
  \/ \E t \in Triggers : RaceEffect(t)
  \/ \E t \in Triggers : RacePass(t)
  \/ \E t \in Triggers : RaceFail(t)

RaceSpec == Init /\ [][RaceNext]_vars

(***************************************************************************)
(* Calls on one DataStore row                                              *)
(***************************************************************************)
ItemVars ==
  <<acts, pk, status, proposals, hasData, store, members, effects, gateExecs,
    firstEvals, inits, notifies, evals, pair, hasNotified, gateRuns, reevals>>

VoteVars == <<bvotes, nvotes, tally, casts, gone, pc>>

DataGet(k) ==
  /\ ret' = get(data_store, k)
  /\ UNCHANGED <<data_store, ItemVars, VoteVars>>

DataSet(k, v) ==
  /\ data_store' = set(data_store, k, v)
  /\ ret' = "True"
  /\ UNCHANGED <<ItemVars, VoteVars>>

DataRemove(k) ==
  /\ data_store' = remove(data_store, k)
  /\ ret' = remove_result(data_store, k)
  /\ UNCHANGED <<ItemVars, VoteVars>>

DataNext ==
  \/ \E k \in PyKeys : DataGet(k)
  \/ \E k \in PyKeys, v \in PyValues : DataSet(k, v)
  \/ \E k \in PyKeys : DataRemove(k)

DataSpec == Init /\ [][DataNext]_vars

(***************************************************************************)
(* Properties                                                              *)
(***************************************************************************)
\* C1: the status of a Proposal only moves from proposed to passed or to
\* failed; once it is passed or failed it never changes again.
C1_StatusMonotonic ==
  [][\A x \in Items : status[x] \in Terminal => status'[x] = status[x]]_vars

C3_BypassPasses ==
  [][\A a \in Actions :
       (/\ gateRuns'[a] # gateRuns[a]
        /\ acts[a].propose /\ acts[a].canExec
        /\ ~acts[a].is_bundled /\ ~CanRaise(a)) =>
          /\ status'[a] = PASSED
          /\ effects'[a] = effects[a] + 1
          /\ evals'[a] = evals[a]
          /\ firstEvals'[a] = firstEvals[a]]_vars

\* C4, for the actions that are not bundled: when the initiator holds the
\* propose permission and not the can-execute one, the save that runs the gate
\* does not execute the action itself, hands it once as a first evaluation to
\* each policy of the pool of its community, and leaves the Proposal proposed
\* (unless one of those policies passed or failed it).
C4_ReviewRequiredProposed ==
  [][\A a \in Actions :
       (/\ gateRuns'[a] # gateRuns[a]
        /\ acts[a].propose /\ ~acts[a].canExec
        /\ ~acts[a].is_bundled) =>
          /\ gateExecs'[a] = gateExecs[a]
          /\ \A p \in Policies :
                firstEvals'[a][p] =
                   firstEvals[a][p] + (IF p \in Range(Pool(a)) THEN 1 ELSE 0)
          /\ \/ status'[a] = PROPOSED
             \/ \E p \in Policies : pair'[a][p] = "resolved"]_vars

\* C5: the effect of an action is applied at most once, and never when its
\* Proposal is already passed or failed.
C5_ExecuteAtMostOnce ==
  [][\A a \in Actions :
       effects'[a] # effects[a] =>
          effects[a] = 0 /\ status[a] \notin Terminal]_vars

\* C6: over any sequence of saves of one action, of any kind, the gate acts for
\* at most one of them: it executes the action at most once or hands it to
\* each policy as a first evaluation at most once, never both.
C6_GateRunsOnce ==
  \A a \in Actions : \A p \in Policies : gateExecs[a] + firstEvals[a][p] <= 1

\* C7: once a policy gave an action its terminal verdict, no hook of any policy
\* runs for that action again (no later policy overrides the outcome).
C7_TerminalVerdictWins ==
  [][\A a \in Actions :
       (\E q \in Policies : pair[a][q] = "resolved") =>
          /\ evals'[a] = evals[a]
          /\ inits'[a] = inits[a]
          /\ notifies'[a] = notifies[a]
          /\ effects'[a] = effects[a]]_vars

C9_InitializeOnce ==
  \A a \in Items : \A p \in Policies : firstEvals[a][p] <= 1 /\ inits[a][p] <= 1

\* C10: notify fires at most once per pair (Action, Policy), and the guard that
\* records it is kept per pair: it is set for a pair only if notify has fired
\* for that pair.
C10_NotifyGuardPerPair ==
  \A a \in Items : \A p \in Policies :
     /\ notifies[a][p] <= 1
     /\ (firstEvals[a][p] > 0 /\ hasNotified[p]) => notifies[a][p] = 1

\* C11: a tally query scoped to a member set returns only votes cast by
\* members of that set, for every member set, the empty one included (which
\* yields no votes).
C11_TallyScoped ==
  tally.users # NoUsers => \A v \in tally.rows : v.user \in tally.users[1]

C13_ThresholdPasses ==
  [][\A a \in Actions :
       (\E p \in Policies : firstEvals'[a][p] > 0) =>
          /\ Cardinality(get_yes_votes(a, NoUsers))' < Threshold =>
                status'[a] = PROPOSED
          /\ (VoteReevaluate(a) /\ status[a] = PROPOSED
                 /\ Cardinality(get_yes_votes(a, NoUsers)) >= Threshold) =>
                status'[a] = PASSED
          /\ status'[a] = PASSED => effects'[a] = 1]_vars

\* C14: for a plain bundle (bundle_type BUNDLE) of any number of bundled
\* actions whose effects all succeed, after the bundle's execute() every
\* bundled action's effect has been applied once more and every bundled
\* action's Proposal is passed, and execute() raised nothing.
C14_PlainBundleExecutes ==
  \A b \in Bundles :
     (acts[b].bundle_type = BUNDLE /\ pk[b]) =>
        LET w == BundleExecute(World, b, AllSucceed)
        IN /\ ~w.exc
           /\ \A a \in members[b] :
                 /\ w.effects[a] = effects[a] + 1
                 /\ w.status[a] = PASSED

\* A plain bundle of two actions has been executed by its policy's success
\* hook: both effects applied, both Proposals passed
C14_Witness ==
  \E b \in Bundles :
     /\ acts[b].bundle_type = BUNDLE
     /\ members[b] = Actions
     /\ status[b] = PASSED
     /\ \A a \in Actions : effects[a] = 1 /\ status[a] = PASSED

\* C15: the first save() of a bundle takes the gate outcomes of a single
\* action for the bundle's own Proposal, by the bundle's own permissions:
\* propose-denied leaves it failed and executes no bundled action;
\* execute-allowed leaves it passed; review-required leaves it proposed and
\* hands the bundle to every policy of its pool.
C15_BundleGate ==
  [][\A b \in Bundles :
       gateRuns'[b] # gateRuns[b] =>
          /\ ~CanPropose(b) =>
                /\ status'[b] = FAILED
                /\ effects' = effects
          /\ (CanPropose(b) /\ CanExecute(b)) => status'[b] = PASSED
          /\ (CanPropose(b) /\ ~CanExecute(b)) =>
                /\ status'[b] = PROPOSED
                /\ \A p \in Range(Pool(b)) : firstEvals'[b][p] = 1]_vars

\* C16: execute() of a bundle of type ELECTION executes exactly one of its
\* bundled actions: exactly one bundled action's effect is applied and exactly
\* one bundled Proposal becomes passed.
C16_ElectionExecutesOne ==
  \A b \in Bundles :
     (acts[b].bundle_type = ELECTION /\ pk[b] /\ members[b] # {}) =>
        LET w == BundleExecute(World, b, AllSucceed)
        IN /\ Cardinality({a \in members[b] : w.effects[a] = effects[a] + 1}) = 1
           /\ Cardinality({a \in members[b] :
                              status[a] # PASSED /\ w.status[a] = PASSED}) = 1

\* C19: for an action whose initiator lacks the propose permission, no
\* DataStore is ever created for the action or for its Proposal.
C19_NoDataStoreWhenDenied ==
  \A a \in Actions :
     (acts[a].kind # NoKind /\ ~CanPropose(a)) =>
        /\ ~hasData[a]
        /\ ProposalDataStores(a) = 0

\* C17: executing a delete action whose referenced entity is missing (the
\* reference is null) is a benign no-op: execute() raises no error and the
\* Proposal becomes passed.  Checked on every execute() that save() runs for an
\* initiator with the execute permission.
C17_MissingEntityNoOp ==
  [][\A a \in Actions :
       (/\ acts[a].kind \in DeleteKinds
        /\ a \in gone
        /\ status[a] # PASSED
        /\ gateExecs'[a] # gateExecs[a]) => status'[a] = PASSED]_vars

\* C18: when a policy hook faults during an evaluation pass, the pass makes
\* no transition: the Proposal stays proposed, the action is persisted with
\* its Proposal, and a later re-evaluation can still resolve it.  Checked for
\* the first pass, which the first save() that reaches the gate runs when it
\* hands the action to the policies of a non-empty pool, and for a
\* re-evaluation of a proposed action.
C18_HookFaultKeepsProposed ==
  \A a \in Actions :
     /\ (/\ acts[a].kind # NoKind
         /\ ~acts[a].is_bundled
         /\ CanPropose(a) /\ ~CanExecute(a)
         /\ Pool(a) # <<>>
         /\ gateRuns[a] = 0
         /\ IF IsConstitution(a) THEN shouldCreate(World, a) ELSE ~pk[a]) =>
           LET w == ActionSave(World, a, HookFault)
           IN /\ w.status[a] = PROPOSED
              /\ w.pk[a]
              /\ w.proposals[a] > 0
              /\ ReevaluateItem(Reload(w), a, AllPass).status[a] = PASSED
     /\ (pk[a] /\ ~acts[a].is_bundled /\ status[a] = PROPOSED) =>
           LET w == ReevaluateItem(World, a, HookFault)
           IN /\ w.status[a] = PROPOSED
              /\ w.pk[a]

\* C20: under any interleaving of concurrent triggers on the same action, the
\* action's effect is applied at most once and its Proposal makes at most one
\* terminal transition (a terminal status never changes).
C20_SerializedPerAction ==
  [][\A a \in Actions :
       /\ effects'[a] <= 1
       /\ status[a] \in Terminal => status'[a] = status[a]]_vars

\* C21: the two policy pools are disjoint and scoped to the community: an
\* action or bundle of the constitution family is only ever handed to
\* ConstitutionPolicy rows of its own community, one of the platform family
\* only to PlatformPolicy rows of its own community; no policy of the other
\* family or of another community ever evaluates, initializes or notifies it.
C21_PoolsDisjointScoped ==
  \A x \in Items : \A p \in Policies :
     (\/ firstEvals[x][p] > 0
      \/ inits[x][p] > 0
      \/ notifies[x][p] > 0
      \/ pair[x][p] # "new") =>
        /\ (p \in ConstitutionPolicy) = IsConstitution(x)
        /\ PolicyCommunity(p) = acts[x].community

\* An action of community c1 has been handed to both constitution policies
\* of c1 while policies of the other family and of community c2 exist
C21_Witness ==
  \E a \in Actions :
     /\ IsConstitution(a)
     /\ acts[a].community = "c1"
     /\ firstEvals[a]["p1"] = 1
     /\ firstEvals[a]["p2"] = 1
     /\ firstEvals[a]["p3"] = 0
     /\ firstEvals[a]["q1"] = 0

\* C22: execute() of a plain bundle runs as a unit: a step that applies the
\* effect of one bundled action applies the effect of every bundled action
\* and passes every bundled Proposal; when an effect fails, no bundled action
\* ends with its effect applied or its Proposal passed.
C22_BundleExecuteAtomic ==
  [][\A b \in Bundles :
       (/\ acts[b].bundle_type = BUNDLE
        /\ \E a \in members[b] : effects'[a] # effects[a]) =>
          \A a \in members[b] :
             /\ effects'[a] = effects[a] + 1
             /\ status'[a] = PASSED]_vars

\* C23: every Proposal belongs to exactly one persisted action and every
\* persisted action has exactly one Proposal: no save() creates a Proposal
\* without persisting its action, and none creates a second Proposal for it.
C23_OneProposalPerAction ==
  \A a \in Actions :
     /\ proposals[a] <= 1
     /\ proposals[a] > 0 => pk[a]
     /\ pk[a] => proposals[a] = 1

\* C24: an action created with is_bundled by an initiator holding the propose
\* permission is neither executed nor handed to any policy by its own save(),
\* whatever execute permission the initiator holds; until a bundle executes
\* it, its Proposal stays proposed and its effect is not applied.
C24_BundledNotEvaluated ==
  \A a \in Actions :
     (acts[a].is_bundled /\ CanPropose(a)) =>
        /\ gateExecs[a] = 0
        /\ \A p \in Policies : firstEvals[a][p] = 0
        /\ (proposals[a] > 0 /\ effects[a] = 0) => status[a] = PROPOSED

\* C25: for a kind with a ready flag, no save() made while ready is false
\* executes the action or hands it to a policy: such a save() (the step that
\* creates the action's row or a Proposal for it while ready is false) leaves
\* the gate, the effect and every policy's counters for the action untouched, and
\* the gate decision, the gate's execute and the first evaluation only happen
\* in a step that starts with ready true.
C25_NoGateBeforeReady ==
  [][\A a \in Actions :
       acts[a].kind \in ReadyKinds =>
          /\ (/\ ~acts[a].ready
              /\ pk'[a] # pk[a] \/ proposals'[a] # proposals[a]) =>
                /\ gateRuns'[a] = gateRuns[a]
                /\ gateExecs'[a] = gateExecs[a]
                /\ effects'[a] = effects[a]
                /\ evals'[a] = evals[a]
                /\ firstEvals'[a] = firstEvals[a]
                /\ inits'[a] = inits[a]
                /\ notifies'[a] = notifies[a]
          /\ (\/ gateRuns'[a] # gateRuns[a]
              \/ gateExecs'[a] # gateExecs[a]
              \/ firstEvals'[a] # firstEvals[a]) => acts[a].ready]_vars

\* An add-role action was saved as a draft (ready false) and has a row, and
\* its gate has not run
C25_Witness ==
  \E a \in Actions :
     /\ acts[a].kind \in ReadyKinds
     /\ ~acts[a].ready
     /\ pk[a]
     /\ proposals[a] = 1
     /\ gateRuns[a] = 0

\* C26: when the platform adapter call raises while a PlatformAction is
\* executed, the action's Proposal is marked neither passed nor failed, it
\* stays proposed: in execute() itself, in the creating save() (gate execute
\* or success hook of the first evaluation), in the success hook of a
\* re-evaluation, and as a bundled action of a plain bundle.
C26_AdapterFailureStaysProposed ==
  \A a \in Actions :
     acts[a].kind \in PlatformKinds =>
        /\ (pk[a] /\ status[a] = PROPOSED) =>
              LET w == execute(World, a, RaiseOn(a))
              IN w.exc /\ w.status[a] = PROPOSED /\ w.effects[a] = effects[a]
        /\ (pk[a] /\ status[a] = PROPOSED /\ ~acts[a].is_bundled) =>
              ReevaluateItem(World, a, RaiseOn(a)).status[a] = PROPOSED
        /\ (~pk[a] /\ CanPropose(a)) =>
              PlatformActionSave(World, a, RaiseOn(a)).status[a] = PROPOSED
        /\ \A b \in Bundles :
              (/\ a \in members[b] /\ pk[b]
               /\ acts[b].bundle_type = BUNDLE /\ status[a] = PROPOSED) =>
                 LET w == BundleExecute(World, b, RaiseOn(a))
                 IN w.exc /\ w.status[a] = PROPOSED

\* A PlatformAction whose creating save() ran execute() for an initiator with
\* the execute permission, the adapter call raised: saved, proposed, no effect
C26_Witness ==
  \E a \in Actions :
     /\ acts[a].kind \in PlatformKinds
     /\ gateExecs[a] = 1
     /\ effects[a] = 0
     /\ pk[a]
     /\ status[a] = PROPOSED

\* C27: DataStore is a key-value map that survives across calls: after
\* set(k, v), get(k) returns v; set and remove of k leave the value of every
\* other key unchanged; get of a key never set, also on an empty store,
\* returns None; after remove(k), get(k) returns None; get changes nothing.
C27_DataStoreIsMap ==
  [][/\ data_store = EmptyStore => \A k \in PyKeys : get(data_store, k) = "None"
     /\ \A k \in PyKeys :
          /\ \A v \in PyValues :
                DataSet(k, v) =>
                   /\ get(data_store', k) = v
                   /\ \A j \in PyKeys \ {k} :
                         get(data_store', j) = get(data_store, j)
          /\ DataRemove(k) =>
                /\ get(data_store', k) = "None"
                /\ \A j \in PyKeys \ {k} : get(data_store', j) = get(data_store, j)
          /\ DataGet(k) => data_store' = data_store]_vars

\* C28: DataStore.remove(k) returns True exactly when k was in the store
\* before the call and False exactly when it was not, whatever value was
\* stored under k, falsy ones (0, False, '', None) included.
C28_RemoveReturnsPresence ==
  [][\A k \in PyKeys :
       DataRemove(k) => ((ret' = "True") <=> Present(data_store, k))]_vars

====
